---- MODULE Spec2Model ----
(***************************************************************************)
(* A model of pion/mediadevices at the Track / CodecSelector refactoring:  *)
(*   - the Track's error latch and one-shot OnEnded dispatch               *)
(*     (src/unnamed/part_002: baseTrack.OnEnded, baseTrack.onError),       *)
(*   - the output drain loop of RTPTrack.wrapVideoTrack                    *)
(*     (src/rtptracker.go),                                                *)
(*   - driver selection, queryDriverProperties and selectBestDriver        *)
(*     (src/unnamed/part_000),                                             *)
(*   - codec negotiation, CodecSelector.selectVideoCodec                   *)
(*     (src/unnamed/part_001), with VideoTrack.Bind, baseTrack.bind and    *)
(*     baseTrack.unbind (src/unnamed/part_002),                            *)
(*   - the Frame Broadcaster over wrappedReader, and Track.Close           *)
(*     (src/unnamed/part_002; the Broadcaster after the specification),    *)
(*   - GetUserMedia, GetDisplayMedia and newTrackFromDriver                *)
(*     (src/unnamed/part_000, src/unnamed/part_002),                       *)
(*   - RTPTrack.wrapVideoTrack up to the start of the drain loop           *)
(*     (src/rtptracker.go).                                                *)
(* Six specifications share the module: TrackSpec, SelectSpec, CodecSpec,  *)
(* CastSpec, MediaSpec and WrapSpec; each leaves the other subsystems'     *)
(* variables at their initial values.                                      *)
(***************************************************************************)
EXTENDS Integers, Sequences, FiniteSets, TLC

\* Go's nil (no error, no handler, no driver, lock not held).
Nil == "nil"

(***************************************************************************)
(* Bounds of the model.                                                    *)
(***************************************************************************)
\* OnEnded calls made over a Track's lifetime.
MaxRegs == 2
\* Failing reads of the Source over a Track's lifetime.
MaxSrcErrs == 1
\* Chunks one drain loop writes to the sink.
MaxWrites == 1

(***************************************************************************)
(* Track: baseTrack's fields and the goroutines that touch them.           *)
(***************************************************************************)
VARIABLES
    err,             \* baseTrack.err
    onErrorHandler,  \* baseTrack.onErrorHandler
    mu,              \* baseTrack.mu: the goroutine holding it, or Nil
    endOnce,         \* baseTrack.endOnce: [done, m] of sync.Once
    invocations,     \* every handler call made so far: <<[h, e]>>
    pc,              \* each goroutine's position
    handler,         \* each goroutine's local "handler"
    lerr,            \* each goroutine's local "err"
    buff,            \* each drain loop's len(buff)
    lastRead,        \* each drain loop's last encodedReader.Read outcome
    written,         \* chunks each drain loop has passed to sample()
    nRegs,           \* OnEnded calls started
    nSrcErrs         \* failing Source reads so far

trackVars == <<err, onErrorHandler, mu, endOnce, invocations, pc, handler, lerr,
               buff, lastRead, written, nRegs, nSrcErrs>>

\* The driver registry and the last selection.
VARIABLES
    properties,  \* each driver's Properties(): a sequence of prop.Media
    priority,    \* each driver's Info().Priority
    status,      \* each driver's Status()
    sel          \* the last selectBestDriver call: its inputs and results

selectVars == <<properties, priority, status, sel>>

\* The codec selector, the bindings and the last negotiation.
VARIABLES
    videoEncoders,  \* CodecSelector.videoEncoders: <<[name, err]>>
    activeTracks,   \* baseTrack.activeTracks: the destinations bound
    neg,            \* the last selectVideoCodec call: its inputs and results
    lastOp          \* the last Bind / bind / unbind call and what it returned

codecVars == <<videoEncoders, activeTracks, neg, lastOp>>

\* The Track's Broadcaster, its Subscriptions and the Track's Source.
VARIABLES
    pulled,       \* frames the pump has pulled from the Source so far
    pump,         \* the pump: running or not, and the error that ended it
    subs,         \* each Subscription's cursor, slot and reads
    closes,       \* Track.Close calls made
    sourceCloses  \* Source.Close calls made

castVars == <<pulled, pump, subs, closes, sourceCloses>>

\* The devices GetUserMedia and GetDisplayMedia work on, and the last call.
VARIABLES
    devStatus,  \* each device driver's Status()
    call,       \* the last GetUserMedia / GetDisplayMedia call and its results
    nCalls      \* calls made

mediaVars == <<devStatus, call, nCalls>>

\* The last RTPTrack.wrapVideoTrack call on the Track.
VARIABLES
    wrap  \* its inputs and what it did and returned

wrapVars == <<wrap>>

\* Application goroutines calling OnEnded.
Apps == {"app1", "app2"}
\* The Broadcaster's pump, reading the Source through wrappedReader.
Pumps == {"pump"}
\* The goroutine started by wrapVideoTrack.
Drains == {"drain1"}
Procs == Apps \cup Pumps \cup Drains

\* Handlers an application registers; OnEnded(nil) is allowed by the code.
Handlers == {"h1", "h2"}
\* Errors of a failing Source read, encodedReader.Read and sample().
SrcErrs == {"eSrc"}
EncErrs == {"eEnc"}
SinkErrs == {"eSink"}
\* Sizes of the chunks the encoder produces.
ChunkSizes == {600, 1500, 3100}
\* make([]byte, 1024)
InitBuffLen == 1024

\* A drain loop that goes on reading after onError.
Returned_Resume(self) == IF self \in Drains THEN "read" ELSE "idle"

\* Where a goroutine is once its OnEnded / onError call has returned: the
\* drain goroutine returns after onError (lines 119-120, 124-125).
Returned(self) == IF self \in Drains THEN "done" ELSE "idle"

TrackInit ==
    /\ err = Nil
    /\ onErrorHandler = Nil
    /\ mu = Nil
    /\ endOnce = [done |-> FALSE, m |-> Nil]
    /\ invocations = <<>>
    /\ pc = [p \in Procs |-> IF p \in Drains THEN "read" ELSE "idle"]
    /\ handler = [p \in Procs |-> Nil]
    /\ lerr = [p \in Procs |-> Nil]
    /\ buff = [d \in Drains |-> InitBuffLen]
    /\ lastRead = [d \in Drains |-> [kind |-> "none", required |-> 0]]
    /\ written = [d \in Drains |-> 0]
    /\ nRegs = 0
    /\ nSrcErrs = 0

\* OnEnded or onError returns: the call's locals are gone.
Return(self) ==
    /\ pc' = [pc EXCEPT ![self] = Returned(self)]
    /\ handler' = [handler EXCEPT ![self] = Nil]
    /\ lerr' = [lerr EXCEPT ![self] = Nil]

\* OnEnded, lines 88-90: lock, store the handler, copy the error.
OnEndedLock(self, h) ==
    /\ self \in Apps
    /\ pc[self] = "idle"
    /\ nRegs < MaxRegs
    /\ mu = Nil
    /\ mu' = self
    /\ onErrorHandler' = h
    /\ handler' = [handler EXCEPT ![self] = h]
    /\ lerr' = [lerr EXCEPT ![self] = err]
    /\ pc' = [pc EXCEPT ![self] = "oe_unlock"]
    /\ nRegs' = nRegs + 1
    /\ UNCHANGED <<err, endOnce, invocations, buff, lastRead, written, nSrcErrs>>
    /\ UNCHANGED <<selectVars, codecVars, castVars, mediaVars, wrapVars>>

\* OnEnded that only registers: an error latched earlier is not dispatched.
OnEndedUnlock_NoDispatch(self) ==
    /\ pc[self] = "oe_unlock"
    /\ mu = self
    /\ mu' = Nil
    /\ Return(self)
    /\ UNCHANGED <<err, onErrorHandler, endOnce, invocations, buff, lastRead,
                   written, nRegs, nSrcErrs>>
    /\ UNCHANGED <<selectVars, codecVars, castVars, mediaVars, wrapVars>>

\* OnEnded, lines 91-93: unlock, then dispatch only with an error and a handler.
OnEndedUnlock(self) ==
    /\ pc[self] = "oe_unlock"
    /\ mu = self
    /\ mu' = Nil
    /\ IF lerr[self] # Nil /\ handler[self] # Nil
       THEN /\ pc' = [pc EXCEPT ![self] = "do"]
            /\ UNCHANGED <<handler, lerr>>
       ELSE Return(self)
    /\ UNCHANGED <<err, onErrorHandler, endOnce, invocations, buff, lastRead,
                   written, nRegs, nSrcErrs>>
    /\ UNCHANGED <<selectVars, codecVars, castVars, mediaVars, wrapVars>>

\* onError, lines 103-105: lock, store the error, copy the handler.
OnErrorLock(self) ==
    /\ pc[self] = "er_lock"
    /\ mu = Nil
    /\ mu' = self
    /\ err' = lerr[self]
    /\ handler' = [handler EXCEPT ![self] = onErrorHandler]
    /\ pc' = [pc EXCEPT ![self] = "er_unlock"]
    /\ UNCHANGED <<onErrorHandler, endOnce, invocations, lerr, buff, lastRead,
                   written, nRegs, nSrcErrs>>
    /\ UNCHANGED <<selectVars, codecVars, castVars, mediaVars, wrapVars>>

\* onError that dispatches without releasing the mutex.
OnErrorUnlock_HoldLock(self) ==
    /\ pc[self] = "er_unlock"
    /\ mu = self
    /\ IF handler[self] # Nil
       THEN /\ pc' = [pc EXCEPT ![self] = "do"]
            /\ UNCHANGED <<handler, lerr, mu>>
       ELSE /\ mu' = Nil
            /\ Return(self)
    /\ UNCHANGED <<err, onErrorHandler, endOnce, invocations, buff, lastRead,
                   written, nRegs, nSrcErrs>>
    /\ UNCHANGED <<selectVars, codecVars, castVars, mediaVars, wrapVars>>

\* onError, lines 106-108: unlock, then dispatch only with a handler.
OnErrorUnlock(self) ==
    /\ pc[self] = "er_unlock"
    /\ mu = self
    /\ mu' = Nil
    /\ IF handler[self] # Nil
       THEN /\ pc' = [pc EXCEPT ![self] = "do"]
            /\ UNCHANGED <<handler, lerr>>
       ELSE Return(self)
    /\ UNCHANGED <<err, onErrorHandler, endOnce, invocations, buff, lastRead,
                   written, nRegs, nSrcErrs>>
    /\ UNCHANGED <<selectVars, codecVars, castVars, mediaVars, wrapVars>>

\* A guard that never closes: Do runs f on every call.
OnceShouldRun_Always(once) == TRUE

\* sync.Once.Do's decision: run f unless done is already set.
OnceShouldRun(once) == ~once.done

\* track.endOnce.Do(func() { handler(err) }): a caller that finds done set
\* returns; otherwise it takes the Once's mutex and calls the handler with
\* its own copies of handler and err. Callers arriving meanwhile wait.
OnceDo(self) ==
    /\ pc[self] = "do"
    /\ IF OnceShouldRun(endOnce)
       THEN /\ endOnce.m = Nil
            /\ endOnce' = [endOnce EXCEPT !.m = self]
            /\ invocations' = Append(invocations,
                   [h |-> handler[self], e |-> lerr[self]])
            /\ pc' = [pc EXCEPT ![self] = "in_handler"]
            /\ UNCHANGED <<handler, lerr>>
       ELSE /\ Return(self)
            /\ UNCHANGED <<endOnce, invocations>>
    /\ UNCHANGED <<err, onErrorHandler, mu, buff, lastRead, written, nRegs,
                   nSrcErrs>>
    /\ UNCHANGED <<selectVars, codecVars, castVars, mediaVars, wrapVars>>

\* The handler returns: Once sets done and releases its mutex.
HandlerReturn(self) ==
    /\ pc[self] = "in_handler"
    /\ endOnce' = [done |-> TRUE, m |-> Nil]
    /\ Return(self)
    /\ UNCHANGED <<err, onErrorHandler, mu, invocations, buff, lastRead,
                   written, nRegs, nSrcErrs>>
    /\ UNCHANGED <<selectVars, codecVars, castVars, mediaVars, wrapVars>>

\* wrappedReader, lines 164-170: a failing reader.Read() calls base.onError.
WrappedRead(self, e) ==
    /\ self \in Pumps
    /\ pc[self] = "idle"
    /\ nSrcErrs < MaxSrcErrs
    /\ nSrcErrs' = nSrcErrs + 1
    /\ lerr' = [lerr EXCEPT ![self] = e]
    /\ pc' = [pc EXCEPT ![self] = "er_lock"]
    /\ UNCHANGED <<err, onErrorHandler, mu, endOnce, invocations, handler,
                   buff, lastRead, written, nRegs>>
    /\ UNCHANGED <<selectVars, codecVars, castVars, mediaVars, wrapVars>>

\* What encodedReader.Read(buff) can return for a buffer of length len: a
\* chunk that fits, InsufficientBufferError with the size of a chunk that does
\* not fit, or another error.
ReadResults(len) ==
    {[kind |-> "ok", n |-> n, required |-> 0, e |-> Nil] :
        n \in {c \in ChunkSizes : c <= len}}
    \cup {[kind |-> "tooSmall", n |-> 0, required |-> c, e |-> Nil] :
        c \in {c \in ChunkSizes : c > len}}
    \cup {[kind |-> "error", n |-> 0, required |-> 0, e |-> e] : e \in EncErrs}

\* A buffer grown to less than the size required.
GrownBuff_Half(required) == required \div 2

\* buff = make([]byte, 2*e.RequiredSize)
GrownBuff(required) == 2 * required

\* Drain loop, lines 112-121: one encodedReader.Read(buff) and what follows.
DrainRead(self, r) ==
    /\ self \in Drains
    /\ pc[self] = "read"
    /\ r \in ReadResults(buff[self])
    /\ r.kind = "ok" => written[self] < MaxWrites
    /\ lastRead' = [lastRead EXCEPT ![self] =
                       [kind |-> r.kind, required |-> r.required]]
    /\ CASE r.kind = "ok" ->
              /\ pc' = [pc EXCEPT ![self] = "write"]
              /\ UNCHANGED <<buff, lerr>>
         [] r.kind = "tooSmall" ->
              /\ buff' = [buff EXCEPT ![self] = GrownBuff(r.required)]
              /\ pc' = [pc EXCEPT ![self] = "read"]
              /\ UNCHANGED lerr
         [] OTHER ->
              /\ lerr' = [lerr EXCEPT ![self] = r.e]
              /\ pc' = [pc EXCEPT ![self] = "er_lock"]
              /\ UNCHANGED buff
    /\ UNCHANGED <<err, onErrorHandler, mu, endOnce, invocations, handler,
                   written, nRegs, nSrcErrs>>
    /\ UNCHANGED <<selectVars, codecVars, castVars, mediaVars, wrapVars>>

\* Drain loop, lines 123-126: sample(buff[:n]) and what follows.
DrainWrite(self, e) ==
    /\ self \in Drains
    /\ pc[self] = "write"
    /\ e \in SinkErrs \cup {Nil}
    /\ IF e = Nil
       THEN /\ written' = [written EXCEPT ![self] = written[self] + 1]
            /\ pc' = [pc EXCEPT ![self] = "read"]
            /\ UNCHANGED lerr
       ELSE /\ lerr' = [lerr EXCEPT ![self] = e]
            /\ pc' = [pc EXCEPT ![self] = "er_lock"]
            /\ UNCHANGED written
    /\ UNCHANGED <<err, onErrorHandler, mu, endOnce, invocations, handler,
                   buff, lastRead, nRegs, nSrcErrs>>
    /\ UNCHANGED <<selectVars, codecVars, castVars, mediaVars, wrapVars>>

\* The steps of a call already under way: the Go scheduler runs every
\* runnable goroutine, and a handler returns.
Continue(self) ==
    \/ OnEndedUnlock(self)
    \/ OnErrorLock(self)
    \/ OnErrorUnlock(self)
    \/ OnceDo(self)
    \/ HandlerReturn(self)

TrackNext ==
    \/ \E self \in Apps, h \in Handlers \cup {Nil} : OnEndedLock(self, h)
    \/ \E self \in Procs : OnEndedUnlock(self)
    \/ \E self \in Procs : OnErrorLock(self)
    \/ \E self \in Procs : OnErrorUnlock(self)
    \/ \E self \in Procs : OnceDo(self)
    \/ \E self \in Procs : HandlerReturn(self)
    \/ \E self \in Pumps, e \in SrcErrs : WrappedRead(self, e)
    \/ \E self \in Drains : \E r \in ReadResults(buff[self]) : DrainRead(self, r)
    \/ \E self \in Drains, e \in SinkErrs \cup {Nil} : DrainWrite(self, e)

(***************************************************************************)
(* Driver selection: queryDriverProperties and selectBestDriver.           *)
(***************************************************************************)
\* Properties one driver reports.
MaxProps == 2

\* The drivers the manager's Query(filter) returns, as a set and as the
\* slice Query returns.
Drivers == {"cam1", "cam2"}
DriverList == <<"cam1", "cam2">>
\* Info().Priority; selection depends on the priorities' differences only,
\* so the lowest priority in a registry is taken to be 0.
Priorities == {0, 1}
\* A prop.Media's width; 0 is Go's zero value, a width not reported.
Widths == {0, 1, 2}
\* A device id no driver has.
UnknownDevice == "camX"
\* The empty string, Go's zero value of DeviceID.
NoDevice == ""
\* prop.Media{}
EmptyMedia == [deviceId |-> NoDevice, width |-> 0]
\* The constraint sets a caller may pass: an exact deviceId or none, an
\* ideal width or none (0).
IdealWidths == {0, 2}
ConstraintSets ==
    [deviceId : {NoDevice, "cam1", UnknownDevice}, width : IdealWidths]

SeqsUpTo(S, n) == UNION {[1..k -> S] : k \in 0..n}
Perms(S) ==
    {f \in [1..Cardinality(S) -> S] : \A i, j \in DOMAIN f : f[i] = f[j] => i = j}
Abs(x) == IF x < 0 THEN -x ELSE x
Max(a, b) == IF a > b THEN a ELSE b

NoErr == [kind |-> "nil", found |-> <<>>, constraints |-> EmptyMedia]
NoSel ==
    [called |-> FALSE, constraints |-> EmptyMedia,
     before |-> [d \in Drivers |-> "closed"], failing |-> {},
     m |-> <<>>, closed |-> <<>>, order |-> <<>>, driver |-> Nil,
     prop |-> EmptyMedia,
     selectedMedia |-> EmptyMedia, err |-> NoErr]

SelectInit ==
    /\ properties \in
         {f \in [Drivers -> SeqsUpTo([deviceId : Drivers, width : Widths], MaxProps)] :
             \A d \in Drivers : \A i \in DOMAIN f[d] : f[d][i].deviceId = d}
    /\ priority \in {f \in [Drivers -> Priorities] : \E d \in Drivers : f[d] = 0}
    /\ status \in [Drivers -> {"closed", "opened"}]
    /\ sel = NoSel

\* Driver.Open() and Driver.Close() when they succeed.
DriverOpen(st, d) == [st EXCEPT ![d] = "opened"]
DriverClose(st, d) == [st EXCEPT ![d] = "closed"]

\* The same without the test of Open's error: a driver that fails to open is
\* remembered for closing and asked for its properties like the others.
RECURSIVE QueryLoop_OpenUnchecked(_, _, _, _, _)
QueryLoop_OpenUnchecked(drivers, failing, st, m, needToClose) ==
    IF drivers = <<>>
    THEN [status |-> st, m |-> m, needToClose |-> needToClose]
    ELSE LET d == Head(drivers)
         IN IF st[d] = "closed"
            THEN QueryLoop_OpenUnchecked(Tail(drivers), failing,
                     IF d \in failing THEN st ELSE DriverOpen(st, d),
                     (d :> properties[d]) @@ m, Append(needToClose, d))
            ELSE QueryLoop_OpenUnchecked(Tail(drivers), failing, st,
                     (d :> properties[d]) @@ m, needToClose)

\* queryDriverProperties, lines 156-167: open each closed driver, skip one
\* that fails to open, remember the ones opened here, read the properties.
RECURSIVE QueryLoop(_, _, _, _, _)
QueryLoop(drivers, failing, st, m, needToClose) ==
    IF drivers = <<>>
    THEN [status |-> st, m |-> m, needToClose |-> needToClose]
    ELSE LET d == Head(drivers)
         IN IF st[d] = "closed"
            THEN IF d \in failing
                 THEN QueryLoop(Tail(drivers), failing, st, m, needToClose)
                 ELSE QueryLoop(Tail(drivers), failing, DriverOpen(st, d),
                                (d :> properties[d]) @@ m,
                                Append(needToClose, d))
            ELSE QueryLoop(Tail(drivers), failing, st,
                           (d :> properties[d]) @@ m, needToClose)

\* queryDriverProperties, lines 169-172: close what was opened here.
RECURSIVE CloseLoop(_, _)
CloseLoop(needToClose, st) ==
    IF needToClose = <<>> THEN st
    ELSE CloseLoop(Tail(needToClose), DriverClose(st, Head(needToClose)))

\* The same with the closing loop left out.
queryDriverProperties_NoClose(drivers, failing, st) ==
    LET q == QueryLoop(drivers, failing, st, <<>>, <<>>)
    IN [m |-> q.m, status |-> q.status, closed |-> <<>>]

\* queryDriverProperties(filter): drivers is Query(filter) in the manager's
\* order, failing the drivers whose Open returns an error, st every driver's
\* state at the call. Returns the map, every driver's state at return and
\* the drivers Close was called on.
queryDriverProperties(drivers, failing, st) ==
    LET q == QueryLoop(drivers, failing, st, <<>>, <<>>)
    IN [m |-> q.m, status |-> CloseLoop(q.needToClose, q.status),
        closed |-> q.needToClose]

\* MediaConstraints.FitnessDistance(p): ok is false when the exact deviceId
\* is not p's; the distance is the width's deviation from its ideal,
\* |actual - ideal| / max(actual, ideal), kept as the fraction num/den.
FitnessDistance(c, p) ==
    [ok |-> c.deviceId = NoDevice \/ c.deviceId = p.deviceId,
     num |-> IF c.width = 0 THEN 0 ELSE Abs(p.width - c.width),
     den |-> IF c.width = 0 THEN 1 ELSE Max(p.width, c.width)]

\* fitnessDist -= priority
Score(c, p, prio) ==
    LET f == FitnessDistance(c, p)
    IN [num |-> f.num - prio * f.den, den |-> f.den]

\* x < y on fractions with positive denominators.
Less(x, y) == x.num * y.den < y.num * x.den

\* The same with <= in place of <.
Improves_OrEqual(score, best) == best.inf \/ ~Less(best.min, score)

\* fitnessDist < minFitnessDist, line 193; minFitnessDist starts at +Inf.
Improves(score, best) == best.inf \/ Less(score, best.min)

\* selectBestDriver, lines 187-198: one driver's properties in order.
RECURSIVE PropLoop(_, _, _, _, _)
PropLoop(d, props, i, c, best) ==
    IF i > Len(props) THEN best
    ELSE LET p == props[i]
             score == Score(c, p, priority[d])
         IN IF ~FitnessDistance(c, p).ok
            THEN PropLoop(d, props, i + 1, c, best)
            ELSE IF Improves(score, best)
                 THEN PropLoop(d, props, i + 1, c,
                               [inf |-> FALSE, min |-> score,
                                bestDriver |-> d, bestProp |-> p])
                 ELSE PropLoop(d, props, i + 1, c, best)

\* selectBestDriver, lines 185-199: the map's drivers in the order the range
\* statement happens to visit them.
RECURSIVE DriverLoop(_, _, _, _)
DriverLoop(order, m, c, best) ==
    IF order = <<>> THEN best
    ELSE DriverLoop(Tail(order), m, c,
                    PropLoop(Head(order), m[Head(order)], 1, c, best))

\* The same keeping, for each driver, its last property once per entry, as
\* when the loop variable's address is kept and printed after the loop.
RECURSIVE FoundProperties_Aliased(_, _)
FoundProperties_Aliased(order, m) ==
    IF order = <<>> THEN <<>>
    ELSE LET props == m[Head(order)]
         IN [i \in 1..Len(props) |-> props[Len(props)]]
            \o FoundProperties_Aliased(Tail(order), m)

\* selectBestDriver, lines 202-207: every property of every driver of the map.
RECURSIVE FoundProperties(_, _)
FoundProperties(order, m) ==
    IF order = <<>> THEN <<>>
    ELSE m[Head(order)] \o FoundProperties(Tail(order), m)

\* prop.Media.MergeConstraints: the constraint's values as defaults.
MergeConstraints(p, c) ==
    [deviceId |-> IF c.deviceId # NoDevice THEN c.deviceId ELSE p.deviceId,
     width |-> IF c.width # 0 THEN c.width ELSE p.width]

\* prop.Media.Merge: every field the other property reports overrides.
Merge(p, o) ==
    [deviceId |-> IF o.deviceId # NoDevice THEN o.deviceId ELSE p.deviceId,
     width |-> IF o.width # 0 THEN o.width ELSE p.width]

\* The same with the two merges in the other order: the constraint's values
\* laid over the winning property.
selectBestDriver_ConstraintsLast(m, order, order2, c) ==
    LET best == DriverLoop(order, m, c,
                    [inf |-> TRUE, min |-> [num |-> 0, den |-> 1],
                     bestDriver |-> Nil, bestProp |-> EmptyMedia])
    IN IF best.bestDriver = Nil
       THEN [driver |-> Nil, prop |-> EmptyMedia, selectedMedia |-> EmptyMedia,
             err |-> [kind |-> "errNotFound",
                      found |-> FoundProperties(order2, m),
                      constraints |-> c]]
       ELSE [driver |-> best.bestDriver, prop |-> best.bestProp,
             selectedMedia |-> MergeConstraints(Merge(EmptyMedia, best.bestProp), c),
             err |-> NoErr]

\* selectBestDriver over the map m, visited in order (and in order2 when the
\* error text is built).
selectBestDriver(m, order, order2, c) ==
    LET best == DriverLoop(order, m, c,
                    [inf |-> TRUE, min |-> [num |-> 0, den |-> 1],
                     bestDriver |-> Nil, bestProp |-> EmptyMedia])
    IN IF best.bestDriver = Nil
       THEN [driver |-> Nil, prop |-> EmptyMedia, selectedMedia |-> EmptyMedia,
             err |-> [kind |-> "errNotFound",
                      found |-> FoundProperties(order2, m),
                      constraints |-> c]]
       ELSE [driver |-> best.bestDriver, prop |-> best.bestProp,
             selectedMedia |-> Merge(MergeConstraints(EmptyMedia, c), best.bestProp),
             err |-> NoErr]

\* One call selectBestDriver(filter, constraints): failing are the drivers
\* whose Open returns an error, order and order2 the orders in which the two
\* range statements over the map visit its drivers.
Select(c, failing, order, order2) ==
    LET q == queryDriverProperties(DriverList, failing, status)
        r == selectBestDriver(q.m, order, order2, c)
    IN /\ ~sel.called
       /\ status' = q.status
       /\ sel' = [called |-> TRUE, constraints |-> c, before |-> status,
                  failing |-> failing, m |-> q.m, closed |-> q.closed,
                  order |-> order,
                  driver |-> r.driver, prop |-> r.prop,
                  selectedMedia |-> r.selectedMedia, err |-> r.err]
       /\ UNCHANGED <<properties, priority>>
       /\ UNCHANGED <<trackVars, codecVars, castVars, mediaVars, wrapVars>>

SelectNext ==
    \E c \in ConstraintSets :
      \E failing \in SUBSET {d \in Drivers : status[d] = "closed"} :
        \E order, order2 \in Perms(Drivers \ failing) :
          Select(c, failing, order, order2)

(***************************************************************************)
(* Codec negotiation and binding: CodecSelector.selectVideoCodec,          *)
(* VideoTrack.Bind, baseTrack.bind and baseTrack.unbind.                   *)
(***************************************************************************)
\* Local encoder builders configured.
MaxEncoders == 2
\* Codecs the peer connection has registered.
MaxWanted == 2

CodecNames == {"VP8", "H264"}
\* The error BuildVideoEncoder returns when it fails.
BuildErrs == {"rA", "rB"}
\* A builder: RTPCodec().Name and what BuildVideoEncoder returns (Nil: an
\* encoder).
Builders == [name : CodecNames, err : BuildErrs \cup {Nil}]
\* LocalTrackContext.PeerConnection
Destinations == {"pc1", "pc2"}

NoNegErr == [kind |-> "nil", e |-> Nil, reasons |-> <<>>]
NoNeg ==
    [called |-> FALSE, wantCodecs |-> <<>>, probeErr |-> Nil, readers |-> 0,
     selectedEncoder |-> 0, attempts |-> <<>>, err |-> NoNegErr]
NoOp == [op |-> "none", dest |-> Nil, err |-> Nil]

CodecInit ==
    /\ videoEncoders \in SeqsUpTo(Builders, MaxEncoders)
    /\ activeTracks = {}
    /\ neg = NoNeg
    /\ lastOp = NoOp

\* selectVideoCodec, lines 78-88: the local builders in order, for one wanted
\* name. st carries err, errReasons, selectedEncoder (the builder's index, 0
\* for nil) and the builders asked to build so far.
RECURSIVE EncoderLoop(_, _, _)
EncoderLoop(name, j, st) ==
    IF j > Len(videoEncoders) THEN st
    ELSE LET encoder == videoEncoders[j]
             built == encoder.name = name
             err1 == IF built THEN encoder.err ELSE st.err
             attempts1 == IF built THEN Append(st.attempts, j) ELSE st.attempts
         IN IF built /\ err1 = Nil
            THEN [st EXCEPT !.err = Nil, !.selectedEncoder = j,
                            !.attempts = attempts1]
            ELSE EncoderLoop(name, j + 1,
                     [st EXCEPT !.err = err1, !.attempts = attempts1,
                                !.errReasons = Append(@,
                                    [name |-> encoder.name, reason |-> err1])])

\* selectVideoCodec, lines 76-89: the wanted codecs in order, until a build
\* succeeds (break outer).
RECURSIVE WantLoop(_, _, _)
WantLoop(wantCodecs, i, st) ==
    IF i > Len(wantCodecs) \/ st.selectedEncoder # 0 THEN st
    ELSE WantLoop(wantCodecs, i + 1, EncoderLoop(wantCodecs[i], 1, st))

\* wrapVideoTrack's loop, rtptracker.go lines 84-92: every local builder in
\* local order, whatever the peer wants.
RECURSIVE LocalLoop(_, _)
LocalLoop(j, st) ==
    IF j > Len(videoEncoders) THEN st
    ELSE LET encoder == videoEncoders[j]
         IN IF encoder.err = Nil
            THEN [st EXCEPT !.err = Nil, !.selectedEncoder = j,
                            !.attempts = Append(@, j)]
            ELSE LocalLoop(j + 1,
                     [st EXCEPT !.err = encoder.err, !.attempts = Append(@, j),
                                !.errReasons = Append(@,
                                    [name |-> encoder.name, reason |-> encoder.err])])

\* The probe's error looked at only after the second reader was opened and
\* the builders were tried.
NegResult_LateProbeCheck(wantCodecs, probeErr, st) ==
    [called |-> TRUE, wantCodecs |-> wantCodecs, probeErr |-> probeErr,
     readers |-> 2, selectedEncoder |-> 0, attempts |-> st.attempts,
     err |-> IF probeErr # Nil
             THEN [kind |-> "probe", e |-> probeErr, reasons |-> <<>>]
             ELSE [kind |-> "aggregate", e |-> Nil, reasons |-> st.errReasons]]

\* What selectVideoCodec returns: lines 64-67 when the probe read fails,
\* lines 91-95 after the loops.
NegResult(wantCodecs, probeErr, st) ==
    IF probeErr # Nil
    THEN [called |-> TRUE, wantCodecs |-> wantCodecs, probeErr |-> probeErr,
          readers |-> 1, selectedEncoder |-> 0, attempts |-> <<>>,
          err |-> [kind |-> "probe", e |-> probeErr, reasons |-> <<>>]]
    ELSE [called |-> TRUE, wantCodecs |-> wantCodecs, probeErr |-> probeErr,
          readers |-> 2, selectedEncoder |-> st.selectedEncoder,
          attempts |-> st.attempts,
          err |-> IF st.selectedEncoder = 0
                  THEN [kind |-> "aggregate", e |-> Nil, reasons |-> st.errReasons]
                  ELSE NoNegErr]

\* The same with the local builders tried in local order, the wanted codecs
\* ignored.
selectVideoCodec_LocalOrder(wantCodecs, probeErr) ==
    NegResult(wantCodecs, probeErr,
        LocalLoop(1, [err |-> Nil, errReasons |-> <<>>,
                      selectedEncoder |-> 0, attempts |-> <<>>]))

\* selectVideoCodec(wantCodecs, track): probeErr is what the probe read
\* returns. The result names the readers opened on the track, the builders
\* asked to build, the builder whose encoder is returned and the error.
selectVideoCodec(wantCodecs, probeErr) ==
    NegResult(wantCodecs, probeErr,
        WantLoop(wantCodecs, 1, [err |-> Nil, errReasons |-> <<>>,
                                 selectedEncoder |-> 0, attempts |-> <<>>]))

\* VideoTrack.Bind(ctx): negotiate with the codecs the peer connection has
\* registered. A failing probe read goes through wrappedReader, which calls
\* onError; no handler is registered and no other goroutine runs here, so
\* onError only stores the error.
VideoTrackBind(dest, wantCodecs, probeErr) ==
    LET r == selectVideoCodec(wantCodecs, probeErr)
    IN /\ mu = Nil
       /\ neg' = r
       /\ lastOp' = [op |-> "Bind", dest |-> dest,
                     err |-> IF r.err.kind = "nil" THEN Nil ELSE r.err.kind]
       /\ err' = IF probeErr # Nil THEN probeErr ELSE err
       /\ UNCHANGED <<videoEncoders, activeTracks>>
       /\ UNCHANGED <<onErrorHandler, mu, endOnce, invocations, pc, handler,
                      lerr, buff, lastRead, written, nRegs, nSrcErrs>>
       /\ UNCHANGED <<selectVars, castVars, mediaVars, wrapVars>>

\* baseTrack.bind, lines 115-149: lock, unlock, return nil.
BaseBind(dest) ==
    /\ mu = Nil
    /\ lastOp' = [op |-> "bind", dest |-> dest, err |-> Nil]
    /\ UNCHANGED <<videoEncoders, activeTracks, neg>>
    /\ UNCHANGED <<trackVars, selectVars, castVars, mediaVars, wrapVars>>

\* baseTrack.unbind, lines 151-156: lock, unlock, return nil.
BaseUnbind(dest) ==
    /\ mu = Nil
    /\ lastOp' = [op |-> "unbind", dest |-> dest, err |-> Nil]
    /\ UNCHANGED <<videoEncoders, activeTracks, neg>>
    /\ UNCHANGED <<trackVars, selectVars, castVars, mediaVars, wrapVars>>

CodecNext ==
    \/ \E dest \in Destinations, wantCodecs \in SeqsUpTo(CodecNames, MaxWanted),
          probeErr \in SrcErrs \cup {Nil} :
          VideoTrackBind(dest, wantCodecs, probeErr)
    \/ \E dest \in Destinations : BaseBind(dest)
    \/ \E dest \in Destinations : BaseUnbind(dest)

(***************************************************************************)
(* The Frame Broadcaster over wrappedReader, and Track.Close.              *)
(***************************************************************************)
\* Frames the Source delivers.
MaxFrames == 3
\* Close calls made on one Track.
MaxCloses == 2

\* The Subscriptions consumers may hold: the readers of NewReader.
Subs == {"s1", "s2"}

\* A Subscription not created yet. base is the number of frames pulled when
\* it was created, slot the frame in its single-slot buffer (0: none), last
\* the frame its last read returned (0: none), got every frame its reads
\* returned, termErr the terminal error broadcast to it, lastResult what its
\* last read returned.
NoSub ==
    [active |-> FALSE, base |-> 0, slot |-> 0, last |-> 0, got |-> <<>>,
     termErr |-> Nil, lastResult |-> "none"]

CastInit ==
    /\ pulled = 0
    /\ pump = [running |-> TRUE, err |-> Nil]
    /\ subs = [s \in Subs |-> NoSub]
    /\ closes = 0
    /\ sourceCloses = 0

\* A Subscription that starts with the frame pulled last in its slot.
NewSub_Replay(n, e) ==
    [NoSub EXCEPT !.active = TRUE, !.base = n, !.slot = n, !.termErr = e]

\* The Subscription subscribe() returns when n frames have been pulled and
\* the pump has ended with e (Nil: it runs).
NewSub(n, e) ==
    [NoSub EXCEPT !.active = TRUE, !.base = n, !.termErr = e]

\* track.NewReader(): subscribe to the Broadcaster.
NewReader(s) ==
    /\ ~subs[s].active
    /\ subs' = [subs EXCEPT ![s] = NewSub(pulled, pump.err)]
    /\ UNCHANGED <<pulled, pump, closes, sourceCloses>>
    /\ UNCHANGED <<trackVars, selectVars, codecVars, mediaVars, wrapVars>>

\* A pump that leaves a frame not yet consumed in its slot.
Deliver_KeepOldest(sub, f) ==
    IF sub.active /\ sub.slot <= sub.last THEN [sub EXCEPT !.slot = f] ELSE sub

\* The pump pushes frame f to one Subscription: the slot is overwritten.
Deliver(sub, f) ==
    IF sub.active THEN [sub EXCEPT !.slot = f] ELSE sub

\* One turn of the pump: a read through wrappedReader (part_002 lines
\* 164-170). A frame is pushed to every active Subscription; an error is
\* passed to base.onError, which stores it (no handler is registered and no
\* other goroutine holds mu here), is broadcast to every active
\* Subscription, and ends the pump.
PumpPull(e) ==
    /\ pump.running
    /\ mu = Nil
    /\ IF e = Nil
       THEN /\ pulled < MaxFrames
            /\ pulled' = pulled + 1
            /\ subs' = [s \in Subs |-> Deliver(subs[s], pulled + 1)]
            /\ UNCHANGED <<pump, err>>
       ELSE /\ err' = e
            /\ pump' = [running |-> FALSE, err |-> e]
            /\ subs' = [s \in Subs |->
                          IF subs[s].active THEN [subs[s] EXCEPT !.termErr = e]
                          ELSE subs[s]]
            /\ UNCHANGED pulled
    /\ UNCHANGED <<closes, sourceCloses>>
    /\ UNCHANGED <<onErrorHandler, mu, endOnce, invocations, pc, handler,
                   lerr, buff, lastRead, written, nRegs, nSrcErrs>>
    /\ UNCHANGED <<selectVars, codecVars, mediaVars, wrapVars>>

\* One Read of a Subscription that has not met its terminal error yet: it
\* returns the frame in its slot when that is newer than the last one
\* returned, or the terminal error broadcast to it; otherwise it blocks.
SubRead(s, what) ==
    /\ subs[s].active
    /\ subs[s].lastResult # "error"
    /\ IF what = "frame"
       THEN /\ subs[s].slot > subs[s].last
            /\ subs' = [subs EXCEPT ![s].last = subs[s].slot,
                                    ![s].got = Append(@, subs[s].slot),
                                    ![s].lastResult = "frame"]
       ELSE /\ subs[s].termErr # Nil
            /\ subs' = [subs EXCEPT ![s].lastResult = "error"]
    /\ UNCHANGED <<pulled, pump, closes, sourceCloses>>
    /\ UNCHANGED <<trackVars, selectVars, codecVars, mediaVars, wrapVars>>

\* track.Close(): no Close is declared on VideoTrack or baseTrack, so the
\* call is the embedded Source's Close (part_002 lines 23-26, 55-69); the
\* Broadcaster is not told.
TrackClose ==
    /\ closes < MaxCloses
    /\ closes' = closes + 1
    /\ sourceCloses' = sourceCloses + 1
    /\ UNCHANGED <<pulled, pump, subs>>
    /\ UNCHANGED <<trackVars, selectVars, codecVars, mediaVars, wrapVars>>

CastNext ==
    \/ \E s \in Subs : NewReader(s)
    \/ \E e \in SrcErrs \cup {Nil} : PumpPull(e)
    \/ \E s \in Subs, what \in {"frame", "error"} : SubRead(s, what)
    \/ TrackClose

(***************************************************************************)
(* GetUserMedia and GetDisplayMedia: selection, track creation, cleanup.   *)
(***************************************************************************)
\* Calls made in one behaviour.
MaxCalls == 2

\* One driver of each kind the three filters tell apart.
VideoDevs == {"camera"}
AudioDevs == {"microphone"}
ScreenDevs == {"screen"}
MediaDevs == VideoDevs \cup AudioDevs \cup ScreenDevs

\* What happens when one track is asked for: the driver selectBestDriver
\* returns (Nil: it returns an error), whether the driver's Open succeeds
\* and whether VideoRecord / AudioRecord succeeds.
Outcomes(devs) == [driver : devs \cup {Nil}, openOk : BOOLEAN, recOk : BOOLEAN]

NoTrack(st) == [track |-> Nil, err |-> Nil, status |-> st, opened |-> Nil]
NoCall ==
    [op |-> "none", before |-> [d \in MediaDevs |-> "closed"],
     created |-> <<>>, closeCalls |-> [d \in MediaDevs |-> 0],
     recordFailed |-> {}, stream |-> FALSE, err |-> Nil]

MediaInit ==
    /\ devStatus \in [MediaDevs -> {"closed", "opened"}]
    /\ call = NoCall
    /\ nCalls = 0

\* newVideoTrackFromDriver / newAudioTrackFromDriver, lines 220-237: a
\* failing VideoRecord / AudioRecord returns the error, a reader becomes a
\* Track on the driver d.
newTrackFromRecorder(d, st, recOk) ==
    IF ~recOk
    THEN [track |-> Nil, err |-> "eRecord", status |-> st, opened |-> d]
    ELSE [track |-> d, err |-> Nil, status |-> st, opened |-> d]

\* newTrackFromDriver, lines 204-217: open the driver, then record.
newTrackFromDriver(d, st, openOk, recOk) ==
    IF ~openOk
    THEN [track |-> Nil, err |-> "eOpen", status |-> st, opened |-> Nil]
    ELSE newTrackFromRecorder(d, DriverOpen(st, d), recOk)

\* selectVideo / selectAudio / selectScreen, lines 227-261: selectBestDriver
\* under the kind's filter, which leaves every driver's state as it was, then
\* newTrackFromDriver on the driver selected.
selectTrack(o, st) ==
    IF o.driver = Nil
    THEN [track |-> Nil, err |-> "errNotFound", status |-> st, opened |-> Nil]
    ELSE newTrackFromDriver(o.driver, st, o.openOk, o.recOk)

\* A cleanup that closes nothing.
cleanTrackers_None(trackers, st, cc) == [status |-> st, closeCalls |-> cc]

\* cleanTrackers, lines 106-110 and 70-74: t.Close() on every Track created
\* so far; a Track's Close is its driver's.
RECURSIVE cleanTrackers(_, _, _)
cleanTrackers(trackers, st, cc) ==
    IF trackers = <<>> THEN [status |-> st, closeCalls |-> cc]
    ELSE cleanTrackers(Tail(trackers), DriverClose(st, Head(trackers)),
                       [cc EXCEPT ![Head(trackers)] = @ + 1])

\* The return with an error: cleanTrackers(), then return nil, err.
Failed(op, trackers, st, e, failed) ==
    LET c == cleanTrackers(trackers, st, [d \in MediaDevs |-> 0])
    IN /\ devStatus' = c.status
       /\ call' = [op |-> op, before |-> devStatus, created |-> trackers,
                   closeCalls |-> c.closeCalls, recordFailed |-> failed,
                   stream |-> FALSE, err |-> e]

\* The return with the stream.
Succeeded(op, trackers, st) ==
    /\ devStatus' = st
    /\ call' = [op |-> op, before |-> devStatus, created |-> trackers,
                closeCalls |-> [d \in MediaDevs |-> 0], recordFailed |-> {},
                stream |-> TRUE, err |-> Nil]

RecordFailed(r) == IF r.err = "eRecord" THEN {r.opened} ELSE {}

\* GetUserMedia(constraints), lines 103-149: the video track, then the audio
\* track, then NewMediaStream; streamOk tells whether NewMediaStream
\* succeeds.
GetUserMedia(videoEnabled, audioEnabled, vo, ao, streamOk) ==
    LET v == IF videoEnabled THEN selectTrack(vo, devStatus)
             ELSE NoTrack(devStatus)
        t1 == IF v.track = Nil THEN <<>> ELSE <<v.track>>
        a == IF audioEnabled THEN selectTrack(ao, v.status)
             ELSE NoTrack(v.status)
        t2 == IF a.track = Nil THEN t1 ELSE Append(t1, a.track)
    IN /\ nCalls < MaxCalls
       /\ nCalls' = nCalls + 1
       /\ IF v.err # Nil
          THEN Failed("GetUserMedia", <<>>, v.status, v.err, RecordFailed(v))
          ELSE IF a.err # Nil
               THEN Failed("GetUserMedia", t1, a.status, a.err, RecordFailed(a))
               ELSE IF ~streamOk
                    THEN Failed("GetUserMedia", t2, a.status, "eStream", {})
                    ELSE Succeeded("GetUserMedia", t2, a.status)
       /\ UNCHANGED <<trackVars, selectVars, codecVars, castVars, wrapVars>>

\* GetDisplayMedia(constraints), lines 67-98: the screen track, then
\* NewMediaStream.
GetDisplayMedia(videoEnabled, vo, streamOk) ==
    LET v == IF videoEnabled THEN selectTrack(vo, devStatus)
             ELSE NoTrack(devStatus)
        t1 == IF v.track = Nil THEN <<>> ELSE <<v.track>>
    IN /\ nCalls < MaxCalls
       /\ nCalls' = nCalls + 1
       /\ IF v.err # Nil
          THEN Failed("GetDisplayMedia", <<>>, v.status, v.err, RecordFailed(v))
          ELSE IF ~streamOk
               THEN Failed("GetDisplayMedia", t1, v.status, "eStream", {})
               ELSE Succeeded("GetDisplayMedia", t1, v.status)
       /\ UNCHANGED <<trackVars, selectVars, codecVars, castVars, wrapVars>>

MediaNext ==
    \/ \E videoEnabled, audioEnabled, streamOk \in BOOLEAN :
          \E vo \in Outcomes(VideoDevs), ao \in Outcomes(AudioDevs) :
             GetUserMedia(videoEnabled, audioEnabled, vo, ao, streamOk)
    \/ \E videoEnabled, streamOk \in BOOLEAN :
          \E vo \in Outcomes(ScreenDevs) :
             GetDisplayMedia(videoEnabled, vo, streamOk)

(***************************************************************************)
(* RTPTrack.wrapVideoTrack up to the start of the drain loop.              *)
(***************************************************************************)
\* The error pc.NewTrack returns when it fails.
TrackErrs == {"eNewTrack"}

NoWrap ==
    [called |-> FALSE, probeErr |-> Nil, trackErr |-> Nil, errBefore |-> Nil,
     selectedEncoder |-> 0, readerCloses |-> 0, drainStarted |-> FALSE,
     err |-> Nil]

WrapInit == wrap = NoWrap

\* The same without encodedReader.Close() when NewTrack fails.
wrapVideoTrack_NoClose(probeErr, trackErr) ==
    LET st == LocalLoop(1, [err |-> Nil, errReasons |-> <<>>,
                            selectedEncoder |-> 0, attempts |-> <<>>])
    IN IF probeErr # Nil
       THEN [selectedEncoder |-> 0, readerCloses |-> 0,
             drainStarted |-> FALSE, err |-> probeErr]
       ELSE IF st.selectedEncoder = 0
            THEN [selectedEncoder |-> 0, readerCloses |-> 0,
                  drainStarted |-> FALSE, err |-> "aggregate"]
            ELSE IF trackErr # Nil
                 THEN [selectedEncoder |-> st.selectedEncoder,
                       readerCloses |-> 0, drainStarted |-> FALSE,
                       err |-> trackErr]
                 ELSE [selectedEncoder |-> st.selectedEncoder,
                       readerCloses |-> 0, drainStarted |-> TRUE,
                       err |-> Nil]

\* wrapVideoTrack, rtptracker.go lines 69-131: the probe read (73-77), the
\* local builders in order (84-96), pc.NewTrack and the Close of the encoded
\* reader when it fails (98-103), then the drain goroutine (107-128).
\* probeErr is what the probe read returns, trackErr what NewTrack returns.
wrapVideoTrack(probeErr, trackErr) ==
    LET st == LocalLoop(1, [err |-> Nil, errReasons |-> <<>>,
                            selectedEncoder |-> 0, attempts |-> <<>>])
    IN IF probeErr # Nil
       THEN [selectedEncoder |-> 0, readerCloses |-> 0,
             drainStarted |-> FALSE, err |-> probeErr]
       ELSE IF st.selectedEncoder = 0
            THEN [selectedEncoder |-> 0, readerCloses |-> 0,
                  drainStarted |-> FALSE, err |-> "aggregate"]
            ELSE IF trackErr # Nil
                 THEN [selectedEncoder |-> st.selectedEncoder,
                       readerCloses |-> 1, drainStarted |-> FALSE,
                       err |-> trackErr]
                 ELSE [selectedEncoder |-> st.selectedEncoder,
                       readerCloses |-> 0, drainStarted |-> TRUE,
                       err |-> Nil]

\* One call rtpTrack.Wrap(pc, track) over the builders of videoEncoders. A
\* failing probe read goes through wrappedReader, which calls onError; no
\* handler is registered and no other goroutine runs here, so onError only
\* stores the error.
WrapVideoTrack(probeErr, trackErr) ==
    LET r == wrapVideoTrack(probeErr, trackErr)
    IN /\ mu = Nil
       /\ wrap' = [called |-> TRUE, probeErr |-> probeErr,
                   trackErr |-> trackErr, errBefore |-> err,
                   selectedEncoder |-> r.selectedEncoder,
                   readerCloses |-> r.readerCloses,
                   drainStarted |-> r.drainStarted, err |-> r.err]
       /\ err' = IF probeErr # Nil THEN probeErr ELSE err
       /\ UNCHANGED <<onErrorHandler, mu, endOnce, invocations, pc, handler,
                      lerr, buff, lastRead, written, nRegs, nSrcErrs>>
       /\ UNCHANGED <<selectVars, codecVars, castVars, mediaVars>>

WrapNext ==
    \E probeErr \in SrcErrs \cup {Nil}, trackErr \in TrackErrs \cup {Nil} :
        WrapVideoTrack(probeErr, trackErr)

vars == <<trackVars, selectVars, codecVars, castVars, mediaVars, wrapVars>>

\* No wrapVideoTrack call is made.
WrapFixed == wrap = NoWrap

\* A wrapVideoTrack call has returned the transport track and started the
\* drain goroutine.
WrapDraining ==
    wrap = [NoWrap EXCEPT !.called = TRUE, !.selectedEncoder = 1,
                          !.drainStarted = TRUE]

\* No GetUserMedia / GetDisplayMedia call is made.
MediaFixed ==
    /\ devStatus = [d \in MediaDevs |-> "closed"]
    /\ call = NoCall
    /\ nCalls = 0

\* A Broadcaster nobody subscribes to and a Track nobody closes.
CastFixed ==
    /\ pulled = 0
    /\ pump = [running |-> TRUE, err |-> Nil]
    /\ subs = [s \in Subs |-> NoSub]
    /\ closes = 0
    /\ sourceCloses = 0

\* A registry and a selector the Track's own behaviour does not depend on.
SelectFixed ==
    /\ properties = [d \in Drivers |-> <<>>]
    /\ priority = [d \in Drivers |-> 0]
    /\ status = [d \in Drivers |-> "closed"]
    /\ sel = NoSel

CodecFixed ==
    /\ videoEncoders = <<>>
    /\ activeTracks = {}
    /\ neg = NoNeg
    /\ lastOp = NoOp

TrackSpecInit ==
    TrackInit /\ SelectFixed /\ CodecFixed /\ CastFixed /\ MediaFixed /\ WrapDraining
SelectSpecInit ==
    TrackInit /\ SelectInit /\ CodecFixed /\ CastFixed /\ MediaFixed /\ WrapFixed
CodecSpecInit ==
    TrackInit /\ SelectFixed /\ CodecInit /\ CastFixed /\ MediaFixed /\ WrapFixed
CastSpecInit ==
    TrackInit /\ SelectFixed /\ CodecFixed /\ CastInit /\ MediaFixed /\ WrapFixed
MediaSpecInit ==
    TrackInit /\ SelectFixed /\ CodecFixed /\ CastFixed /\ MediaInit /\ WrapFixed

\* The Track's goroutines: OnEnded, onError, the pump and the drain loop.
TrackSpec ==
    /\ TrackSpecInit
    /\ [][TrackNext]_vars
    /\ \A self \in Procs : WF_vars(Continue(self))

\* One selectBestDriver call over every registry within the bounds.
SelectSpec == SelectSpecInit /\ [][SelectNext]_vars

\* Bind, bind and unbind calls over every selector within the bounds.
CodecSpec == CodecSpecInit /\ [][CodecNext]_vars

WrapSpecInit ==
    /\ TrackInit /\ SelectFixed /\ CodecInit /\ CastFixed /\ MediaFixed
    /\ WrapInit

\* wrapVideoTrack calls over every list of builders within the bounds.
WrapSpec == WrapSpecInit /\ [][WrapNext]_vars

\* GetUserMedia and GetDisplayMedia calls over every outcome of selection,
\* Open, VideoRecord / AudioRecord and NewMediaStream.
MediaSpec == MediaSpecInit /\ [][MediaNext]_vars

\* The pump, the consumers of the Subscriptions and the Track's owner; a
\* consumer whose Read can return does read.
CastSpec ==
    /\ CastSpecInit
    /\ [][CastNext]_vars
    /\ \A s \in Subs : WF_vars(\E what \in {"frame", "error"} : SubRead(s, what))

(***************************************************************************)
(* Properties of the Track (TrackSpec).                                    *)
(***************************************************************************)
Quiet(p) == pc[p] \in {"idle", "done"}

\* C1: over any interleaving of OnEnded registrations and onError calls on
\* one Track, the handler is invoked at most once in total; a registration
\* or an onError that comes after the invocation invokes nothing.
C1_AtMostOneInvocation ==
    /\ Len(invocations) <= 1
    /\ endOnce.done => Len(invocations) = 1

\* The guard has fired, and an OnEnded with another handler, made after the
\* error, has reached endOnce.Do.
C1_Witness ==
    /\ endOnce.done
    /\ Len(invocations) = 1
    /\ \E p \in Apps : /\ pc[p] = "do"
                       /\ handler[p] # invocations[1].h

\* C2: an onError that finds no handler registered invokes nothing; an
\* OnEnded or onError call that found both an error and a handler returns
\* only once the one invocation has been made; and whenever an error is
\* latched and a non-nil handler is registered, exactly one invocation
\* eventually occurs.
C2_ErrorAndHandlerInvokeOnce ==
    /\ [][\A p \in Procs :
            /\ (pc[p] = "er_unlock" /\ handler[p] = Nil /\ pc'[p] # pc[p])
                 => (pc'[p] = Returned(p) /\ invocations' = invocations)
            /\ (pc[p] \in {"do", "in_handler"} /\ pc'[p] = Returned(p))
                 => Len(invocations') = 1]_vars
    /\ (err # Nil /\ onErrorHandler # Nil) ~> (Len(invocations) = 1)

\* The error was latched with no handler registered, and a later OnEnded(h)
\* is calling h with the latched error.
C2_Witness ==
    \E p \in Apps :
        /\ pc[p] = "in_handler"
        /\ invocations = <<[h |-> handler[p], e |-> lerr[p]]>>
        /\ err = lerr[p]
        /\ onErrorHandler = handler[p]

\* C3: the latched error is set at most once: once an error is stored, no
\* later onError changes it.
C3_LatchedErrorNeverChanges == [][err # Nil => err' = err]_vars

\* C10: after a read that failed with the buffer-too-small error the drain
\* loop is at its read again, with a buffer of at least the required size,
\* and has neither written a chunk nor called onError for that read.
C10_TooSmallRetries ==
    \A d \in Drains :
        lastRead[d].kind = "tooSmall" =>
            /\ pc[d] = "read"
            /\ buff[d] >= lastRead[d].required

\* A drain loop has grown its buffer after a too-small read and is about to
\* read again.
C10_Witness ==
    \E d \in Drains :
        /\ lastRead[d].kind = "tooSmall"
        /\ pc[d] = "read"
        /\ buff[d] > InitBuffLen

\* C11: in the drain loop a read error other than buffer-too-small, and a
\* sink-write error, is passed to onError (which stores it in the Track),
\* onError is entered once, and from then on the loop neither reads nor
\* writes again.
C11_DrainErrorEndsLoop ==
    [][\A d \in Drains :
         /\ (pc[d] = "read" /\ pc'[d] # "read" /\ lastRead'[d].kind = "error")
              => (pc'[d] = "er_lock" /\ lerr'[d] \in EncErrs)
         /\ (pc[d] = "write" /\ pc'[d] # "write" /\ written'[d] = written[d])
              => (pc'[d] = "er_lock" /\ lerr'[d] \in SinkErrs)
         /\ (pc[d] = "er_lock" /\ pc'[d] # "er_lock")
              => (pc'[d] = "er_unlock" /\ err' = lerr[d])
         /\ pc[d] \notin {"read", "write"}
              => /\ pc'[d] \notin {"read", "write"}
                 /\ pc'[d] = "er_lock" => pc[d] = "er_lock"
                 /\ lastRead'[d] = lastRead[d]
                 /\ written'[d] = written[d]
                 /\ buff'[d] = buff[d]]_vars

\* A drain loop wrote a chunk, then met an error and has returned from its
\* onError call.
C11_Witness ==
    \E d \in Drains :
        /\ pc[d] = "done"
        /\ written[d] = 1
        /\ lastRead[d].kind \in {"ok", "error"}

\* C13: once the Track's error is latched, a read through wrappedReader
\* fails without calling the Source's Read again: no Source read, failing or
\* not, happens in a state where err is set.
C13_NoSourceReadAfterLatch == [][err # Nil => nSrcErrs' = nSrcErrs]_vars

\* C18: every handler invocation made so far was given the error the Track
\* stores.
C18_HandlerGetsLatchedError ==
    \A i \in DOMAIN invocations : invocations[i].e = err

\* C22: a goroutine that is about to call the handler, or is inside it,
\* does not hold the Track's mutex; whoever holds the mutex is between its
\* Lock and its Unlock and waits for nothing, so a handler that takes the
\* mutex itself gets it.
C22_HandlerRunsUnlocked ==
    /\ \A p \in Procs : pc[p] \in {"do", "in_handler"} => mu # p
    /\ mu # Nil => pc[mu] \in {"oe_unlock", "er_unlock"}

\* The handler is running, called from onError, while another goroutine
\* holds the mutex.
C22_Witness ==
    \E p \in Pumps \cup Drains :
        /\ pc[p] = "in_handler"
        /\ mu # Nil

(***************************************************************************)
(* Properties of driver selection (SelectSpec).                            *)
(***************************************************************************)
\* The (driver, index) pairs of a map of properties, and the eligible ones.
Pairs(m) == UNION {{<<d, i>> : i \in 1..Len(m[d])} : d \in DOMAIN m}
PropAt(m, pr) == m[pr[1]][pr[2]]
Eligible(c, m) == {pr \in Pairs(m) : FitnessDistance(c, PropAt(m, pr)).ok}
PairScore(c, m, pr) == Score(c, PropAt(m, pr), priority[pr[1]])
\* a is met before b when the drivers are visited in order.
Position(order, d) == CHOOSE k \in 1..Len(order) : order[k] = d
MetBefore(order, a, b) ==
    \/ Position(order, a[1]) < Position(order, b[1])
    \/ a[1] = b[1] /\ a[2] < b[2]
Count(seq, x) == Cardinality({i \in 1..Len(seq) : seq[i] = x})

\* C4: when some pair satisfies the required attributes, selectBestDriver
\* returns an eligible pair whose score (fitness distance minus priority) is
\* minimal among the eligible pairs, and among pairs of equal minimal score
\* the one met first.
C4_SelectsMinimalScore ==
    (sel.called /\ Eligible(sel.constraints, sel.m) # {}) =>
        /\ sel.err = NoErr
        /\ \E w \in Eligible(sel.constraints, sel.m) :
              /\ sel.driver = w[1]
              /\ sel.prop = PropAt(sel.m, w)
              /\ \A o \in Eligible(sel.constraints, sel.m) \ {w} :
                    LET sw == PairScore(sel.constraints, sel.m, w)
                        so == PairScore(sel.constraints, sel.m, o)
                    IN \/ Less(sw, so)
                       \/ ~Less(so, sw) /\ MetBefore(sel.order, w, o)

\* Two drivers hold pairs of the same minimal score, and the driver visited
\* first, which is not the first of the manager's list, was selected.
C4_Witness ==
    /\ sel.called
    /\ sel.driver = "cam2"
    /\ sel.order = <<"cam2", "cam1">>
    /\ \E a, b \in Eligible(sel.constraints, sel.m) :
          /\ a[1] = "cam1" /\ b[1] = "cam2"
          /\ priority["cam1"] # priority["cam2"]
          /\ ~Less(PairScore(sel.constraints, sel.m, a),
                   PairScore(sel.constraints, sel.m, b))
          /\ ~Less(PairScore(sel.constraints, sel.m, b),
                   PairScore(sel.constraints, sel.m, a))
          /\ \A o \in Eligible(sel.constraints, sel.m) :
                ~Less(PairScore(sel.constraints, sel.m, o),
                      PairScore(sel.constraints, sel.m, a))

\* C5: every driver is in the same open/closed state when a selection call
\* returns as when it started, whether the selection succeeds or fails.
C5_DriverStatesRestored == sel.called => status = sel.before

\* A selection that opened a closed driver to read its properties, while
\* another driver was already open.
C5_Witness ==
    /\ sel.called
    /\ \E d \in DOMAIN sel.m : sel.before[d] = "closed" /\ Len(sel.m[d]) > 0
    /\ \E d \in DOMAIN sel.m : sel.before[d] = "opened"

\* C6: when no pair satisfies the required attributes, selectBestDriver
\* returns no driver and an error wrapping errNotFound that lists every
\* property of every queried driver, once each, and the constraints given.
C6_NotFoundListsEverything ==
    (sel.called /\ Eligible(sel.constraints, sel.m) = {}) =>
        /\ sel.driver = Nil
        /\ sel.err.kind = "errNotFound"
        /\ sel.err.constraints = sel.constraints
        /\ Len(sel.err.found) = Cardinality(Pairs(sel.m))
        /\ \A d \in DOMAIN sel.m : \A w \in Widths :
              Count(sel.err.found, [deviceId |-> d, width |-> w])
                  = Count(sel.m[d], [deviceId |-> d, width |-> w])

\* A failed selection over two queried drivers, one reporting two different
\* properties.
C6_Witness ==
    /\ sel.called
    /\ sel.err.kind = "errNotFound"
    /\ DOMAIN sel.m = Drivers
    /\ \E d \in Drivers : Len(sel.m[d]) = 2 /\ sel.m[d][1] # sel.m[d][2]
    /\ \A d \in Drivers : Len(sel.m[d]) > 0

\* C16: a driver whose Open fails while the properties are read is left
\* out: it has no entry in the map, Close is not called on it, its state is
\* what it was, and the selection is made among the other drivers: the
\* selected pair is an eligible pair of minimal score of the map, and the
\* result is not-found exactly when the map holds no eligible pair.
C16_FailedOpenSkipped ==
    (sel.called /\ sel.failing # {}) =>
        /\ \A d \in sel.failing :
              /\ d \notin DOMAIN sel.m
              /\ Count(sel.closed, d) = 0
              /\ status[d] = sel.before[d]
        /\ DOMAIN sel.m = Drivers \ sel.failing
        /\ \A d \in DOMAIN sel.m : sel.m[d] = properties[d]
        /\ IF Eligible(sel.constraints, sel.m) = {}
           THEN sel.driver = Nil /\ sel.err.kind = "errNotFound"
           ELSE /\ sel.err = NoErr
                /\ \E w \in Eligible(sel.constraints, sel.m) :
                      /\ sel.driver = w[1]
                      /\ sel.prop = PropAt(sel.m, w)
                      /\ \A o \in Eligible(sel.constraints, sel.m) :
                            ~Less(PairScore(sel.constraints, sel.m, o),
                                  PairScore(sel.constraints, sel.m, w))

\* A driver that failed to open holds a property that fits the constraints
\* exactly; the selection returned a pair of the other driver, which was
\* opened and closed again.
C16_Witness ==
    /\ sel.called
    /\ sel.driver # Nil
    /\ Count(sel.closed, sel.driver) = 1
    /\ sel.constraints.width # 0
    /\ sel.prop.width # sel.constraints.width
    /\ \E d \in sel.failing : \E i \in DOMAIN properties[d] :
          /\ FitnessDistance(sel.constraints, properties[d][i]).ok
          /\ properties[d][i].width = sel.constraints.width

\* C17: on success the merged property holds, field by field, the value the
\* winning property reports when it reports one and the constraint's ideal
\* otherwise; nothing else enters it.
C17_MergedProperty ==
    (sel.called /\ sel.driver # Nil) =>
        /\ sel.selectedMedia.width =
              IF sel.prop.width # 0 THEN sel.prop.width
              ELSE sel.constraints.width
        /\ sel.selectedMedia.deviceId =
              IF sel.prop.deviceId # NoDevice THEN sel.prop.deviceId
              ELSE sel.constraints.deviceId

\* The winning property reports a width other than the ideal one.
C17_Witness ==
    /\ sel.called
    /\ sel.driver # Nil
    /\ sel.prop.width # 0
    /\ sel.constraints.width # 0
    /\ sel.prop.width # sel.constraints.width
    /\ sel.selectedMedia.width = sel.prop.width

\* C24: the result of a selection depends on the registry, the drivers'
\* states and the constraints only: whatever the order in which the map of
\* properties is visited, the same driver and the same merged property are
\* returned.
C24_SelectionDeterministic ==
    sel.called =>
        \A o \in Perms(DOMAIN sel.m) :
            LET r == selectBestDriver(sel.m, o, o, sel.constraints)
            IN /\ r.driver = sel.driver
               /\ r.selectedMedia = sel.selectedMedia

(***************************************************************************)
(* Properties of codec negotiation and binding (CodecSpec).                *)
(***************************************************************************)
\* The (wanted index, builder index) pairs whose builder has the wanted
\* name, and those whose build succeeds.
Matching(wantCodecs) ==
    {pr \in (1..Len(wantCodecs)) \X (1..Len(videoEncoders)) :
        videoEncoders[pr[2]].name = wantCodecs[pr[1]]}
Working(wantCodecs) ==
    {pr \in Matching(wantCodecs) : videoEncoders[pr[2]].err = Nil}
LexBefore(a, b) == a[1] < b[1] \/ (a[1] = b[1] /\ a[2] < b[2])

\* C7: once the probe read has succeeded, negotiation succeeds exactly when
\* some wanted codec has a local builder of the same name whose build
\* succeeds; it then returns the encoder of the first such pair, in wanted
\* order and then local order, and that build is the last one attempted.
C7_FirstWorkingWantedCodec ==
    (neg.called /\ neg.probeErr = Nil) =>
        /\ (neg.err.kind = "nil") <=> (Working(neg.wantCodecs) # {})
        /\ (neg.selectedEncoder # 0) <=> (Working(neg.wantCodecs) # {})
        /\ Working(neg.wantCodecs) # {} =>
              \E w \in Working(neg.wantCodecs) :
                 /\ neg.selectedEncoder = w[2]
                 /\ \A o \in Working(neg.wantCodecs) \ {w} : LexBefore(w, o)
                 /\ neg.attempts[Len(neg.attempts)] = w[2]
                 /\ \A k \in 1..(Len(neg.attempts) - 1) :
                       videoEncoders[neg.attempts[k]].err # Nil

\* The first wanted codec's builder fails and the second wanted codec's
\* builder, which comes first locally, is selected.
C7_Witness ==
    /\ neg.called
    /\ neg.probeErr = Nil
    /\ Len(neg.wantCodecs) = 2
    /\ Len(neg.attempts) = 2
    /\ neg.selectedEncoder = 1
    /\ videoEncoders[1].name = neg.wantCodecs[2]
    /\ videoEncoders[2].name = neg.wantCodecs[1]

\* C8: when negotiation fails after a successful probe, the aggregate error
\* has one entry per failed build attempt, naming the builder asked to build
\* and carrying that attempt's own reason, and nothing else.
C8_OneReasonPerAttempt ==
    (neg.called /\ neg.err.kind = "aggregate") =>
        neg.err.reasons =
            [k \in 1..Len(neg.attempts) |->
                [name |-> videoEncoders[neg.attempts[k]].name,
                 reason |-> videoEncoders[neg.attempts[k]].err]]

\* C9: after a Bind or bind that returned no error the destination is in
\* the Track's active bindings.
C9_BindAddsDestination ==
    (lastOp.op \in {"Bind", "bind"} /\ lastOp.err = Nil) =>
        lastOp.dest \in activeTracks

\* C21: when the probe read fails, negotiation returns that error, has
\* opened the probe's reader only, has asked no builder to build, and the
\* error is the one the Track stores.
C21_ProbeErrorEndsNegotiation ==
    (neg.called /\ neg.probeErr # Nil) =>
        /\ neg.err = [kind |-> "probe", e |-> neg.probeErr, reasons |-> <<>>]
        /\ lastOp.op = "Bind" => lastOp.err = "probe"
        /\ neg.readers = 1
        /\ neg.attempts = <<>>
        /\ neg.selectedEncoder = 0
        /\ err = neg.probeErr

\* The probe read failed in a negotiation whose first wanted codec has a
\* local builder that would have built.
C21_Witness ==
    /\ neg.called
    /\ neg.probeErr # Nil
    /\ Len(neg.wantCodecs) > 0
    /\ \E j \in DOMAIN videoEncoders :
          /\ videoEncoders[j].name = neg.wantCodecs[1]
          /\ videoEncoders[j].err = Nil

(***************************************************************************)
(* Properties of the Broadcaster and of Track.Close (CastSpec).            *)
(***************************************************************************)
\* A step in which Subscription s's Read returns.
ReadReturns(s) ==
    \/ subs'[s].got # subs[s].got
    \/ subs'[s].lastResult = "error" /\ subs[s].lastResult # "error"

\* C12: once the Track has been closed, the next Read of every outstanding
\* Subscription returns a terminal error, and however many times Close is
\* called, with or without a latched error, Source.Close has been called
\* exactly once.
C12_CloseEndsReadsAndClosesSourceOnce ==
    [][/\ closes' > 0 => sourceCloses' = 1
       /\ \A s \in Subs :
             (closes > 0 /\ subs[s].active /\ ReadReturns(s))
                 => subs'[s].lastResult = "error"]_vars

\* C14: the frames a Subscription's reads return are strictly increasing in
\* pull order, and none of them was pulled before the Subscription was
\* created.
C14_SubscriptionOrder ==
    \A s \in Subs :
        /\ \A i, j \in DOMAIN subs[s].got :
              i < j => subs[s].got[i] < subs[s].got[j]
        /\ \A i \in DOMAIN subs[s].got :
              /\ subs[s].got[i] > subs[s].base
              /\ subs[s].got[i] <= pulled

\* A Subscription created after the first frame was pulled has read two
\* later frames.
C14_Witness ==
    \E s \in Subs :
        /\ subs[s].base > 0
        /\ Len(subs[s].got) >= 2

\* C15: the pump can pull whenever the Source has a frame, whatever the
\* Subscriptions hold; a frame pulled while a Subscription has not consumed
\* the one in its slot replaces it; and a Subscription with a frame not yet
\* consumed comes to return the frame pulled last, unless its terminal
\* error ends it.
C15_PumpNeverWaits ==
    /\ [](pump.running /\ pulled < MaxFrames => ENABLED PumpPull(Nil))
    /\ [][\A s \in Subs :
            (pulled' = pulled + 1 /\ subs[s].active)
                => (subs'[s].slot = pulled' /\ subs'[s].got = subs[s].got)]_vars
    /\ \A s \in Subs :
          (subs[s].active /\ subs[s].slot > subs[s].last)
              ~> (subs[s].last = pulled \/ subs[s].lastResult = "error")

\* A Subscription that read the first frame, did not read the second and
\* has read the third.
C15_Witness ==
    \E s \in Subs :
        /\ subs[s].base = 0
        /\ subs[s].got = <<1, 3>>
        /\ pulled = 3

(***************************************************************************)
(* Properties of GetUserMedia and GetDisplayMedia (MediaSpec).             *)
(***************************************************************************)
\* C19: when VideoRecord / AudioRecord fails on a driver newTrackFromDriver
\* has opened, the driver is closed again before the call returns its error:
\* a driver closed before the call is closed after it.
C19_DriverClosedAfterRecordFailure ==
    \A d \in call.recordFailed :
        call.before[d] = "closed" => devStatus[d] = "closed"

\* C20: when the call returns an error, no stream is returned and Close has
\* been called exactly once on every Track the call had created, and on
\* nothing else.
C20_FailureClosesCreatedTracks ==
    call.err # Nil =>
        /\ ~call.stream
        /\ \A d \in MediaDevs :
              call.closeCalls[d] =
                  IF \E i \in DOMAIN call.created : call.created[i] = d
                  THEN 1 ELSE 0
        /\ \A i \in DOMAIN call.created : devStatus[call.created[i]] = "closed"

\* GetUserMedia created the video track and the audio track, and
\* NewMediaStream failed.
C20_Witness ==
    /\ call.op = "GetUserMedia"
    /\ call.err = "eStream"
    /\ Len(call.created) = 2
    /\ \A d \in VideoDevs \cup AudioDevs : call.closeCalls[d] = 1

(***************************************************************************)
(* Properties of wrapVideoTrack and of the end of the drain loop           *)
(* (WrapSpec, TrackSpec).                                                  *)
(***************************************************************************)
\* C25: when a builder has built the encoder and NewTrack then fails, the
\* encoded reader has been closed exactly once, no drain loop was started,
\* the Track's latched error is what it was before the call, and the error
\* returned is NewTrack's.
C25_NewTrackFailureClosesReader ==
    (wrap.called /\ wrap.selectedEncoder # 0 /\ wrap.trackErr # Nil) =>
        /\ wrap.readerCloses = 1
        /\ ~wrap.drainStarted
        /\ err = wrap.errBefore
        /\ wrap.err = wrap.trackErr

\* NewTrack failed after the second local builder built the encoder, on a
\* Track with no error latched.
C25_Witness ==
    /\ wrap.called
    /\ wrap.trackErr # Nil
    /\ wrap.selectedEncoder = 2
    /\ wrap.err = wrap.trackErr
    /\ err = Nil

\* C23: once the drain loop has ended on a read or sink-write error, the
\* Track is closed without a Close call by its owner: its Source has been
\* closed and the encoded reader has been closed.
C23_DrainEndClosesTrack ==
    \A d \in Drains :
        pc[d] = "done" =>
            /\ sourceCloses = 1
            /\ wrap.readerCloses = 1
====
